---- MODULE Spec2Model ----
(***************************************************************************)
(* The index-backed multi-mod query of db/IndexQuery.go: IndexQuery.Run    *)
(* over a snapshot of per-mod index buckets.  One IndexQuery is built by   *)
(* NewIndexQuery and Run against the snapshot; Run may be called again on  *)
(* the same value.                                                         *)
(***************************************************************************)
EXTENDS Integers, Sequences, FiniteSets, TLC

(***************************************************************************)
(* Bounds of the model.                                                    *)
(***************************************************************************)
\* entries a snapshot holds over all its buckets, entries of any kind
MaxEntries == 2
\* entries a snapshot of well-formed single-ID entries holds over all buckets
MaxPlainEntries == 4
\* maxDesired ranges over 0..MaxDesiredBound
MaxDesiredBound == 2
\* entries a snapshot holds when the minimum values range over all 16 bits
MaxWideEntries == 2
\* items in the list Satisfies is called with
MaxItems == 2
\* fields the holder of a MultiModSearch and of its clone writes
MaxWrites == 1
\* entries a snapshot holds when two goroutines call Run
MaxConcEntries == 2

\* item IDs stored in the index
ItemIDs == {"a", "b"}
\* StringHeapIDs of the mods that may have a bucket
ModIDs == {1, 2}
\* human-facing mod values, before scaling
UserValues == {1, 2}
\* the mods a query asks for: one mod, the same mod twice, two mods
ModLists == {<<1>>, <<1, 1>>, <<1, 2>>}

(***************************************************************************)
(* Program constants.                                                      *)
(***************************************************************************)
LookupItemsMultiModStrideLength == 32
ItemModAverageScaleFactor == 10
Uint16Mod == 2 ^ 16

(***************************************************************************)
(* The index snapshot.  A bucket is a sequence of entries in ascending key *)
(* order (position 1 is the start of the bucket, the last position its     *)
(* tail).  An entry is a nested sub-bucket, which a cursor reports as      *)
(* (nil, non-nil), or a key/value pair.  A key either fails to decode or   *)
(* decodes to a sequence of values; the value of a pair is an IndexEntry,  *)
(* a packed sequence of item IDs.                                          *)
(***************************************************************************)
Range(s) == {s[j] : j \in 1..Len(s)}

SeqsUpTo(S, n) == UNION {[1..m -> S] : m \in 0..n}

MalformedKey == [ok |-> FALSE, values |-> <<>>]
NoValuesKey == [ok |-> TRUE, values |-> <<>>]
ValueKey(p) == [ok |-> TRUE, values |-> <<p>>]

NestedEntry == [nested |-> TRUE, key |-> NoValuesKey, ids |-> <<>>]
PairEntry(key, ids) == [nested |-> FALSE, key |-> key, ids |-> ids]

Primaries == {u * ItemModAverageScaleFactor : u \in UserValues}

\* IndexEntries: one ID, two IDs, the same ID twice
IDLists == {<<"a">>, <<"b">>, <<"a", "b">>, <<"a", "a">>}

PlainEntries == {PairEntry(ValueKey(p), <<id>>) : p \in Primaries, id \in ItemIDs}

AllEntries ==
    {PairEntry(ValueKey(p), ids) : p \in Primaries, ids \in IDLists}
        \cup {PairEntry(MalformedKey, <<"a">>), PairEntry(NoValuesKey, <<"a">>),
              NestedEntry}

HasPrimary(e) == ~e.nested /\ e.key.ok /\ Len(e.key.values) > 0

\* keys sort so that ascending key order is ascending primary value order
SortedBucket(b) ==
    \A x, y \in 1..Len(b) :
        (x < y /\ HasPrimary(b[x]) /\ HasPrimary(b[y]))
            => b[x].key.values[1] <= b[y].key.values[1]

BucketsOf(A, n) == {b \in SeqsUpTo(A, n) : SortedBucket(b)}

\* a mod's bucket: present with its entries, absent, or failing to open
BucketStates(A, n) ==
    {[status |-> "present", entries |-> b] : b \in BucketsOf(A, n)}
        \cup {[status |-> "absent", entries |-> <<>>],
              [status |-> "fails", entries |-> <<>>]}

TotalEntries(s) == Len(s[1].entries) + Len(s[2].entries)

StoresOf(A, n) == {s \in [ModIDs -> BucketStates(A, n)] : TotalEntries(s) <= n}

Stores == StoresOf(AllEntries, MaxEntries) \cup StoresOf(PlainEntries, MaxPlainEntries)


(***************************************************************************)
(* The state: the snapshot, the IndexQuery value and its context, the      *)
(* position of Run, and what Run returned.                                 *)
(***************************************************************************)
VARIABLES
    store,      \* the index snapshot: mod -> bucket state
    q,          \* the IndexQuery: mods, minModValues (scaled), maxDesired
    ctx,        \* q.ctx, the indexQueryContext, or the nil context
    pc,         \* where Run is: idle, prime, loop, stride, done, panicked
    i,          \* the cursor slot the priming loop or the stride pass is at
    index,      \* the stride counter of the cursor a pass is at
    foundIDs,   \* Run's foundIDs
    ret,        \* what the last call of Run returned
    prev,       \* what the call of Run before the last one returned
    file,       \* the file FetchMultiModSearch is given the path of
    items,      \* the items Satisfies is called with
    heap,       \* the backing arrays of the slices: reference -> sequence
    search,     \* the MultiModSearch FetchMultiModSearch returned, or nil
    clone,      \* the MultiModSearch Clone returned, or nil
    cpc,        \* where the caller is: start, fetched, cloned, checked, failed
    writes,     \* how many fields the caller has written since Clone
    fetchErr,   \* the error FetchMultiModSearch returned
    answer,     \* what Satisfies returned for search and for clone
    objs,       \* the contexts concurrent Runs have made: goroutine -> context
    qctx,       \* the ctx field of each IndexQuery value: 0 (nil) or a context
    thr         \* the goroutines that call Run: goroutine -> its locals

indexVars == <<store, q, ctx, pc, i, index, foundIDs, ret, prev>>

cmdVars == <<file, items, heap, search, clone, cpc, writes, fetchErr, answer>>

concVars == <<objs, qctx, thr>>

vars == <<store, q, ctx, pc, i, index, foundIDs, ret, prev,
          file, items, heap, search, clone, cpc, writes, fetchErr, answer,
          objs, qctx, thr>>

NilCursor == [nil |-> TRUE, mod |-> 0, pos |-> 0]

NilCtx == [nil |-> TRUE, validCursors |-> 0, cursors |-> <<>>,
           set |-> <<>>, result |-> <<>>]

NoReturn == [returned |-> FALSE, result |-> <<>>, err |-> ""]

\* NewIndexQuery: the minimum values are scaled in 16 bits
NewIndexQuery(mods, minModValues, maxDesired) ==
    [mods |-> mods,
     minModValues |->
        [j \in 1..Len(minModValues) |->
            (minModValues[j] * ItemModAverageScaleFactor) % Uint16Mod],
     maxDesired |-> maxDesired]

\* getItemModIndexBucketRO: a mod without a bucket gives a bucket without
\* entries and no error
getItemModIndexBucketRO(s, mod) ==
    [err |-> s[mod].status = "fails",
     entries |-> IF s[mod].status = "present" THEN s[mod].entries ELSE <<>>]

\* decodeModIndexKey: the values of a key or an error
decodeModIndexKey(k) ==
    [err |-> ~k.ok, values |-> IF k.ok THEN k.values ELSE <<>>]

\* the pair a cursor over bucket b reports at position p
PairAt(b, p) ==
    IF p < 1 \/ p > Len(b)
    THEN [knil |-> TRUE, vnil |-> TRUE, key |-> NoValuesKey, ids |-> <<>>]
    ELSE IF b[p].nested
    THEN [knil |-> TRUE, vnil |-> FALSE, key |-> NoValuesKey, ids |-> <<>>]
    ELSE [knil |-> FALSE, vnil |-> FALSE, key |-> b[p].key, ids |-> b[p].ids]

\* Cursor.First for Cursor.Last: the position of the start of the bucket
LastIsFirst(b, c) == IF Len(b) > 0 THEN 1 ELSE 0

\* Cursor.Last: the position of the tail of the bucket
Last(b, c) == Len(b)

\* Cursor.Prev: one position towards the start of the bucket
Prev(b, c) == IF c.pos > 1 THEN c.pos - 1 ELSE 0

\* removeCursor without the decrement of validCursors
removeCursorKeepsCount(c, slot) ==
    [c EXCEPT !.cursors[slot] = NilCursor]

\* removeCursor
removeCursor(c, slot) ==
    [c EXCEPT !.cursors[slot] = NilCursor, !.validCursors = @ - 1]

\* initContext: one cursor per mod, all of them counted valid
initContext(query, s) ==
    IF \E j \in 1..Len(query.mods) : getItemModIndexBucketRO(s, query.mods[j]).err
    THEN [err |-> TRUE, ctx |-> NilCtx]
    ELSE [err |-> FALSE,
          ctx |-> [nil |-> FALSE,
                   validCursors |-> Len(query.mods),
                   cursors |-> [j \in 1..Len(query.mods) |->
                                   [nil |-> FALSE, mod |-> query.mods[j], pos |-> 0]],
                   set |-> <<>>,
                   result |-> <<>>]]

\* registerID promoting only above len(mods): shared > len(q.mods)
registerIDAbove(c, query, id) ==
    LET shared == (IF id \in DOMAIN c.set THEN c.set[id] ELSE 0) + 1
    IN  IF shared > Len(query.mods)
        THEN [c EXCEPT !.result = Append(@, id),
                       !.set = [x \in (DOMAIN c.set) \ {id} |-> c.set[x]]]
        ELSE [c EXCEPT !.set = [x \in (DOMAIN c.set) \cup {id} |->
                                    IF x = id THEN shared ELSE c.set[x]]]

\* registerID: count the ID; at len(mods) move it from the set to the result
registerID(c, query, id) ==
    LET shared == (IF id \in DOMAIN c.set THEN c.set[id] ELSE 0) + 1
    IN  IF shared >= Len(query.mods)
        THEN [c EXCEPT !.result = Append(@, id),
                       !.set = [x \in (DOMAIN c.set) \ {id} |-> c.set[x]]]
        ELSE [c EXCEPT !.set = [x \in (DOMAIN c.set) \cup {id} |->
                                    IF x = id THEN shared ELSE c.set[x]]]

\* IndexEntry.ForEachID(q.registerID): every packed ID, in storage order
RECURSIVE ForEachID(_, _, _)
ForEachID(ids, c, query) ==
    IF ids = <<>> THEN c
    ELSE ForEachID(Tail(ids), registerID(c, query, Head(ids)), query)

\* checkPair with the minimum excluded: values[0] > min
checkPairStrict(c, query, k, v, modIndex) ==
    LET dec == decodeModIndexKey(k)
    IN  IF dec.err THEN [ctx |-> c, idCount |-> 0, err |-> "decode"]
        ELSE IF Len(dec.values) = 0
        THEN [ctx |-> c, idCount |-> 0, err |-> "novalues"]
        ELSE IF dec.values[1] > query.minModValues[modIndex]
        THEN [ctx |-> ForEachID(v, c, query), idCount |-> 0, err |-> ""]
        ELSE [ctx |-> removeCursor(c, modIndex), idCount |-> 0, err |-> ""]

\* checkPair with the comparison turned round: values[0] <= min
checkPairFlipped(c, query, k, v, modIndex) ==
    LET dec == decodeModIndexKey(k)
    IN  IF dec.err THEN [ctx |-> c, idCount |-> 0, err |-> "decode"]
        ELSE IF Len(dec.values) = 0
        THEN [ctx |-> c, idCount |-> 0, err |-> "novalues"]
        ELSE IF dec.values[1] <= query.minModValues[modIndex]
        THEN [ctx |-> ForEachID(v, c, query), idCount |-> 0, err |-> ""]
        ELSE [ctx |-> removeCursor(c, modIndex), idCount |-> 0, err |-> ""]

\* checkPair returning the number of IDs it registered
checkPairCounts(c, query, k, v, modIndex) ==
    LET dec == decodeModIndexKey(k)
    IN  IF dec.err THEN [ctx |-> c, idCount |-> 0, err |-> "decode"]
        ELSE IF Len(dec.values) = 0
        THEN [ctx |-> c, idCount |-> 0, err |-> "novalues"]
        ELSE IF dec.values[1] >= query.minModValues[modIndex]
        THEN [ctx |-> ForEachID(v, c, query), idCount |-> Len(v), err |-> ""]
        ELSE [ctx |-> removeCursor(c, modIndex), idCount |-> 0, err |-> ""]

\* checkPair registering the IDs of a pair below the minimum before it
\* removes the cursor
checkPairRegistersBelow(c, query, k, v, modIndex) ==
    LET dec == decodeModIndexKey(k)
    IN  IF dec.err THEN [ctx |-> c, idCount |-> 0, err |-> "decode"]
        ELSE IF Len(dec.values) = 0
        THEN [ctx |-> c, idCount |-> 0, err |-> "novalues"]
        ELSE IF dec.values[1] >= query.minModValues[modIndex]
        THEN [ctx |-> ForEachID(v, c, query), idCount |-> 0, err |-> ""]
        ELSE [ctx |-> removeCursor(ForEachID(v, c, query), modIndex),
              idCount |-> 0, err |-> ""]

\* checkPair: the context after the pair, the count it returns, its error
checkPair(c, query, k, v, modIndex) ==
    LET dec == decodeModIndexKey(k)
    IN  IF dec.err THEN [ctx |-> c, idCount |-> 0, err |-> "decode"]
        ELSE IF Len(dec.values) = 0
        THEN [ctx |-> c, idCount |-> 0, err |-> "novalues"]
        ELSE IF dec.values[1] >= query.minModValues[modIndex]
        THEN [ctx |-> ForEachID(v, c, query), idCount |-> 0, err |-> ""]
        ELSE [ctx |-> removeCursor(c, modIndex), idCount |-> 0, err |-> ""]

(***************************************************************************)
(* Run, one step at a time.  A step takes the machine state                *)
(* [ctx, pc, i, index, foundIDs, ret] to the next one.                     *)
(***************************************************************************)
Machine == [ctx |-> ctx, pc |-> pc, i |-> i, index |-> index,
            foundIDs |-> foundIDs, ret |-> ret]

\* Return without the deferred clearContext: q.ctx is kept
ReturnKeepsContext(st, err) ==
    [st EXCEPT !.pc = "done",
               !.ret = [returned |-> TRUE, result |-> st.ctx.result, err |-> err]]

\* Run returns q.ctx.result and err; the deferred clearContext drops q.ctx
Return(st, err) ==
    [st EXCEPT !.pc = "done", !.ctx = NilCtx,
               !.ret = [returned |-> TRUE, result |-> st.ctx.result, err |-> err]]

\* Run, lines 213-220: initContext; when it fails db.View returns the error
\* and Run reads q.ctx.result through the nil q.ctx
RunStart(st, query, s) ==
    LET r == initContext(query, s)
    IN  IF r.err
        THEN [st EXCEPT !.pc = "panicked", !.ctx = NilCtx]
        ELSE [st EXCEPT !.pc = "prime", !.ctx = r.ctx, !.i = 1]

\* PrimeNext with foundIDs kept from the call before
PrimeNextKeepsFound(st, query) ==
    IF st.i + 1 > Len(query.mods)
    THEN [st EXCEPT !.pc = "loop", !.i = 1]
    ELSE [st EXCEPT !.i = st.i + 1]

\* the priming loop moves to the next slot, or on to the stride loop
PrimeNext(st, query) ==
    IF st.i + 1 > Len(query.mods)
    THEN [st EXCEPT !.pc = "loop", !.i = 1, !.foundIDs = 0]
    ELSE [st EXCEPT !.i = st.i + 1]

\* priming that sets slot i to its tail and does not check the tail pair
PrimeStepUnchecked(st, query, s) ==
    LET b == getItemModIndexBucketRO(s, query.mods[st.i]).entries
    IN  PrimeNext([st EXCEPT !.ctx.cursors[st.i].pos = Last(b, st.ctx.cursors[st.i])],
                  query)

\* Run, lines 223-234: slot i is set to its tail and the tail pair checked
PrimeStep(st, query, s) ==
    LET c == st.ctx.cursors[st.i]
        b == getItemModIndexBucketRO(s, query.mods[st.i]).entries
        p == Last(b, c)
        kv == PairAt(b, p)
        c1 == IF c.nil THEN st.ctx ELSE [st.ctx EXCEPT !.cursors[st.i].pos = p]
    IN  IF kv.knil THEN PrimeNext([st EXCEPT !.ctx = c1], query)
        ELSE LET r == checkPair(c1, query, kv.key, kv.ids, st.i)
             IN  IF r.err # "" THEN Return([st EXCEPT !.ctx = c1], r.err)
                 ELSE PrimeNext([st EXCEPT !.ctx = r.ctx], query)

\* the loop test leaving with one cursor still valid: validCursors > 1
LoopStepOneLeft(st, query) ==
    IF st.foundIDs < query.maxDesired /\ st.ctx.validCursors > 1
    THEN [st EXCEPT !.pc = "stride", !.i = 1, !.index = 0]
    ELSE Return(st, "")

\* the loop test going on without a valid cursor: validCursors >= 0
LoopStepNoneLeft(st, query) ==
    IF st.foundIDs < query.maxDesired /\ st.ctx.validCursors >= 0
    THEN [st EXCEPT !.pc = "stride", !.i = 1, !.index = 0]
    ELSE Return(st, "")

\* the loop test with != for <: foundIDs != maxDesired
LoopStepUnequal(st, query) ==
    IF st.foundIDs # query.maxDesired /\ st.ctx.validCursors > 0
    THEN [st EXCEPT !.pc = "stride", !.i = 1, !.index = 0]
    ELSE Return(st, "")

\* Run, lines 237-249: the test of the stride loop
LoopStep(st, query) ==
    IF st.foundIDs < query.maxDesired /\ st.ctx.validCursors > 0
    THEN [st EXCEPT !.pc = "stride", !.i = 1, !.index = 0]
    ELSE Return(st, "")

\* stride moves to the next slot; after the last one Run takes foundIDs
StrideNext(st, query) ==
    IF st.i + 1 > Len(query.mods)
    THEN [st EXCEPT !.pc = "loop", !.i = 1, !.index = 0,
                    !.foundIDs = Len(st.ctx.result)]
    ELSE [st EXCEPT !.i = st.i + 1, !.index = 0]

\* stride, lines 170-204: one turn of the loops, reading at most one pair
StrideStep(st, query, s) ==
    LET c == st.ctx.cursors[st.i]
        b == getItemModIndexBucketRO(s, query.mods[st.i]).entries
    IN  IF c.nil THEN StrideNext(st, query)
        ELSE IF ~(st.index < LookupItemsMultiModStrideLength)
        THEN StrideNext(st, query)
        ELSE
          LET p == Prev(b, c)
              kv == PairAt(b, p)
              c1 == [st.ctx EXCEPT !.cursors[st.i].pos = p]
          IN  IF kv.knil
              THEN IF kv.vnil
                   THEN StrideNext([st EXCEPT !.ctx = removeCursor(c1, st.i)], query)
                   ELSE [st EXCEPT !.ctx = c1]
              ELSE LET r == checkPair(c1, query, kv.key, kv.ids, st.i)
                   IN  IF r.err # "" THEN Return([st EXCEPT !.ctx = c1], r.err)
                       ELSE IF r.idCount < 1
                       THEN StrideNext([st EXCEPT !.ctx = r.ctx], query)
                       ELSE [st EXCEPT !.ctx = r.ctx,
                                       !.index = st.index + r.idCount]

\* one step of Run from machine state st
Step(st, query, s) ==
    CASE st.pc = "idle" -> RunStart(st, query, s)
      [] st.pc = "prime" -> PrimeStep(st, query, s)
      [] st.pc = "loop" -> LoopStep(st, query)
      [] st.pc = "stride" -> StrideStep(st, query, s)
      [] OTHER -> st

Fresh == [ctx |-> NilCtx, pc |-> "idle", i |-> 1, index |-> 0,
          foundIDs |-> 0, ret |-> NoReturn]

\* a whole call of Run on a fresh IndexQuery value
RECURSIVE RunFrom(_, _, _)
RunFrom(st, query, s) ==
    IF st.pc \in {"done", "panicked"} THEN st
    ELSE RunFrom(Step(st, query, s), query, s)

RunOf(query, s) == RunFrom(Fresh, query, s)

(***************************************************************************)
(* The mod-search surface of package cmd: a MultiModSearch is read from a  *)
(* file by FetchMultiModSearch, copied by Clone, written by its holder and *)
(* asked with Satisfies.  Mods and MinValues are slices: references to     *)
(* backing arrays on the heap.                                             *)
(***************************************************************************)
\* mod templates a predicate names, and one no predicate names
ModNames == {"A", "B"}
OtherName == "X"

\* a mod instance of an item: its template and its values
ModInstance(t, v) == [Template |-> t, Values |-> <<v>>]

\* the items: no mod, one mod, a value below the minimum, two mods, the same
\* mod twice, a mod outside the predicate
ItemChoices ==
    {<<>>,
     <<ModInstance("A", 2)>>,
     <<ModInstance("A", 1), ModInstance("B", 2)>>,
     <<ModInstance("A", 2), ModInstance("B", 2)>>,
     <<ModInstance("A", 2), ModInstance("A", 2)>>,
     <<ModInstance("A", 2), ModInstance(OtherName, 1), ModInstance("B", 2)>>}

\* the Mods of a file: none, one, two, the same mod twice
FileMods == {<<>>, <<"A">>, <<"A", "B">>, <<"A", "A">>}

\* the MinValues of a file: as long as some Mods list, not always the same
FileMinValues == UNION {[1..Len(m) -> UserValues] : m \in FileMods}

\* a file: missing, not a JSON object of the type, or a JSON object
Files ==
    {[status |-> st, MaxDesired |-> 0, Mods |-> <<>>, MinValues |-> <<>>] :
        st \in {"missing", "badjson"}}
      \cup {[status |-> "ok", MaxDesired |-> 1, Mods |-> m, MinValues |-> v] :
               m \in FileMods, v \in FileMinValues}

NilSearch == [nil |-> TRUE, MaxDesired |-> 0,
              RootType |-> "", RootFlavor |-> "", League |-> "",
              Mods |-> 0, MinValues |-> 0]

NoAnswer == [search |-> "none", clone |-> "none"]

\* the fields of a MultiModSearch with its slices read through the heap
View(s, h) ==
    [MaxDesired |-> s.MaxDesired, RootType |-> s.RootType,
     RootFlavor |-> s.RootFlavor, League |-> s.League,
     Mods |-> h[s.Mods], MinValues |-> h[s.MinValues]]

\* FetchMultiModSearch: open the file and decode it into a MultiModSearch
FetchMultiModSearch(f, h) ==
    IF f.status = "missing"
    THEN [err |-> "failed to open file", search |-> NilSearch, heap |-> h]
    ELSE IF f.status = "badjson"
    THEN [err |-> "failed to read query", search |-> NilSearch, heap |-> h]
    ELSE [err |-> "",
          search |-> [nil |-> FALSE, MaxDesired |-> f.MaxDesired,
                      RootType |-> "Armour", RootFlavor |-> "Boots",
                      League |-> "Legacy",
                      Mods |-> Len(h) + 1, MinValues |-> Len(h) + 2],
          heap |-> h \o <<f.Mods, f.MinValues>>]

\* Clone keeping the slices of the original
CloneShallow(s, h) == [search |-> s, heap |-> h]

\* Clone: the fields are copied, Mods and MinValues into new arrays
Clone(s, h) ==
    [search |-> [s EXCEPT !.Mods = Len(h) + 1, !.MinValues = Len(h) + 2],
     heap |-> h \o <<h[s.Mods], h[s.MinValues]>>]

\* Satisfies, lines 69-72: the minimum of a mod; a later position of the same
\* mod overwrites an earlier one
RequiredOf(p) ==
    [mod \in Range(p.Mods) |->
        LET last == CHOOSE j \in 1..Len(p.Mods) :
                        /\ p.Mods[j] = mod
                        /\ \A k \in 1..Len(p.Mods) : p.Mods[k] = mod => k <= j
        IN  p.MinValues[last]]

\* Satisfies, lines 78-90: the mod instances of an item that meet a minimum
RECURSIVE ModsSatisfied(_, _)
ModsSatisfied(mods, required) ==
    IF mods = <<>> THEN 0
    ELSE (IF Head(mods).Template \in DOMAIN required
               /\ required[Head(mods).Template] <= Head(mods).Values[1]
          THEN 1 ELSE 0)
            + ModsSatisfied(Tail(mods), required)

\* Satisfies on the predicate p (a view): true, false or panic
Satisfies(p, result) ==
    IF Len(p.Mods) # Len(p.MinValues) THEN "panic"
    ELSE IF \A x \in 1..Len(result) :
                ModsSatisfied(result[x], RequiredOf(p)) >= Len(p.Mods)
    THEN "true" ELSE "false"

\* nothing of package cmd has run
CmdIdle ==
    /\ file = [status |-> "missing", MaxDesired |-> 0, Mods |-> <<>>,
               MinValues |-> <<>>]
    /\ items = <<>>
    /\ heap = <<>>
    /\ search = NilSearch
    /\ clone = NilSearch
    /\ cpc = "start"
    /\ writes = 0
    /\ fetchErr = ""
    /\ answer = NoAnswer

(***************************************************************************)
(* Two goroutines call Run at the same time, on the same IndexQuery value  *)
(* or on two values built alike.  Run has a pointer receiver and keeps its *)
(* context in the ctx field of the IndexQuery: every q.ctx in Run reads    *)
(* the field again.  A goroutine has its own transaction and locals; the   *)
(* contexts are objects on the heap, and a range loop over q.ctx.cursors   *)
(* keeps the slice it started with.                                        *)
(***************************************************************************)
Threads == {1, 2}

\* the locals of a goroutine: the IndexQuery value it calls Run on, where it
\* is in Run, its loop variables, the context whose cursors its range loop
\* runs over (0: none), and what Run returned to it
FreshThread(v) ==
    [val |-> v, pc |-> "idle", i |-> 1, index |-> 0, foundIDs |-> 0,
     rng |-> 0, ret |-> NoReturn]

\* no goroutine calls Run
ConcIdle ==
    /\ objs = [t \in Threads |-> NilCtx]
    /\ qctx = [v \in Threads |-> 0]
    /\ thr = [t \in Threads |-> FreshThread(t)]

\* the world a step of a goroutine works on
World == [objs |-> objs, qctx |-> qctx, thr |-> thr]

\* q.ctx as goroutine t reads it: 0 is nil
Cur(w, t) == w.qctx[w.thr[t].val]

\* a nil dereference: the goroutine panics, the deferred clearContext runs
ConcPanic(w, t) ==
    [w EXCEPT !.thr[t].pc = "panicked", !.qctx[w.thr[t].val] = 0]

\* return q.ctx.result, err; then the deferred clearContext
ConcReturn(w, t, err) ==
    IF Cur(w, t) = 0 THEN ConcPanic(w, t)
    ELSE [w EXCEPT !.thr[t].pc = "done",
                   !.thr[t].ret = [returned |-> TRUE,
                                   result |-> w.objs[Cur(w, t)].result,
                                   err |-> err],
                   !.qctx[w.thr[t].val] = 0]

\* Run, lines 213-220: initContext makes a context and assigns q.ctx
ConcRunStart(w, t, query, s) ==
    LET r == initContext(query, s)
    IN  IF r.err THEN ConcReturn(w, t, "init")
        ELSE [w EXCEPT !.objs[t] = r.ctx,
                       !.qctx[w.thr[t].val] = t,
                       !.thr[t].pc = "prime",
                       !.thr[t].i = 1]

\* the priming loop moves to the next slot, or on to the stride loop
ConcPrimeNext(w, t, query) ==
    IF w.thr[t].i + 1 > Len(query.mods)
    THEN [w EXCEPT !.thr[t].pc = "loop", !.thr[t].i = 1, !.thr[t].foundIDs = 0]
    ELSE [w EXCEPT !.thr[t].i = @ + 1]

\* checkPair(k, v, i) through q.ctx as it is now
ConcCheckPair(w, t, query, kv) ==
    IF Cur(w, t) = 0
    THEN [nilctx |-> TRUE, world |-> w, idCount |-> 0, err |-> ""]
    ELSE LET r == checkPair(w.objs[Cur(w, t)], query, kv.key, kv.ids, w.thr[t].i)
         IN  [nilctx |-> FALSE,
              world |-> [w EXCEPT !.objs[Cur(w, t)] = r.ctx],
              idCount |-> r.idCount, err |-> r.err]

\* Run, lines 223-234: the first turn evaluates range q.ctx.cursors; the
\* cursor of slot i is set to its tail and the tail pair checked
ConcPrimeStep(w, t, query, s) ==
    LET rng == IF w.thr[t].i = 1 THEN Cur(w, t) ELSE w.thr[t].rng
    IN  IF rng = 0 THEN ConcPanic(w, t)
        ELSE IF w.objs[rng].cursors[w.thr[t].i].nil THEN ConcPanic(w, t)
        ELSE
          LET b == getItemModIndexBucketRO(s, query.mods[w.thr[t].i]).entries
              p == Last(b, w.objs[rng].cursors[w.thr[t].i])
              kv == PairAt(b, p)
              w1 == [w EXCEPT !.thr[t].rng = rng,
                              !.objs[rng].cursors[w.thr[t].i].pos = p]
          IN  IF kv.knil THEN ConcPrimeNext(w1, t, query)
              ELSE LET r == ConcCheckPair(w1, t, query, kv)
                   IN  IF r.nilctx THEN ConcPanic(w1, t)
                       ELSE IF r.err # "" THEN ConcReturn(w1, t, r.err)
                       ELSE ConcPrimeNext(r.world, t, query)

\* Run, lines 237-249: the test of the stride loop; stride evaluates
\* range q.ctx.cursors
ConcLoopStep(w, t, query) ==
    IF ~(w.thr[t].foundIDs < query.maxDesired) THEN ConcReturn(w, t, "")
    ELSE IF Cur(w, t) = 0 THEN ConcPanic(w, t)
    ELSE IF w.objs[Cur(w, t)].validCursors > 0
    THEN [w EXCEPT !.thr[t].pc = "stride", !.thr[t].i = 1,
                   !.thr[t].index = 0, !.thr[t].rng = Cur(w, t)]
    ELSE ConcReturn(w, t, "")

\* stride moves to the next slot; after the last one Run takes foundIDs
ConcStrideNext(w, t, query) ==
    IF w.thr[t].i + 1 > Len(query.mods)
    THEN IF Cur(w, t) = 0 THEN ConcPanic(w, t)
         ELSE [w EXCEPT !.thr[t].pc = "loop", !.thr[t].i = 1,
                        !.thr[t].index = 0,
                        !.thr[t].foundIDs = Len(w.objs[Cur(w, t)].result)]
    ELSE [w EXCEPT !.thr[t].i = @ + 1, !.thr[t].index = 0]

\* stride, lines 170-204: one turn of the loops, reading at most one pair
ConcStrideStep(w, t, query, s) ==
    LET slot == w.thr[t].i
        c == w.objs[w.thr[t].rng].cursors[slot]
        b == getItemModIndexBucketRO(s, query.mods[slot]).entries
    IN  IF c.nil THEN ConcStrideNext(w, t, query)
        ELSE IF ~(w.thr[t].index < LookupItemsMultiModStrideLength)
        THEN ConcStrideNext(w, t, query)
        ELSE
          LET p == Prev(b, c)
              kv == PairAt(b, p)
              w1 == [w EXCEPT !.objs[w.thr[t].rng].cursors[slot].pos = p]
          IN  IF kv.knil
              THEN IF kv.vnil
                   THEN IF Cur(w1, t) = 0 THEN ConcPanic(w1, t)
                        ELSE ConcStrideNext(
                                [w1 EXCEPT !.objs[Cur(w1, t)] = removeCursor(@, slot)],
                                t, query)
                   ELSE w1
              ELSE LET r == ConcCheckPair(w1, t, query, kv)
                   IN  IF r.nilctx THEN ConcPanic(w1, t)
                       ELSE IF r.err # "" THEN ConcReturn(w1, t, r.err)
                       ELSE IF r.idCount < 1
                       THEN ConcStrideNext(r.world, t, query)
                       ELSE [r.world EXCEPT !.thr[t].index = @ + r.idCount]

ConcBecome(w) ==
    /\ objs' = w.objs
    /\ qctx' = w.qctx
    /\ thr' = w.thr

(***************************************************************************)
(* The specification.                                                      *)
(***************************************************************************)
Become(st) ==
    /\ ctx' = st.ctx
    /\ pc' = st.pc
    /\ i' = st.i
    /\ index' = st.index
    /\ foundIDs' = st.foundIDs
    /\ ret' = st.ret

Init ==
    /\ store \in Stores
    /\ \E mods \in ModLists :
        /\ \A m \in ModIDs \ Range(mods) : store[m].status = "absent"
        /\ \E mins \in [1..Len(mods) -> UserValues], k \in 0..MaxDesiredBound :
              q = NewIndexQuery(mods, mins, k)
    /\ ctx = NilCtx
    /\ pc = "idle"
    /\ i = 1
    /\ index = 0
    /\ foundIDs = 0
    /\ ret = NoReturn
    /\ prev = NoReturn
    /\ CmdIdle
    /\ ConcIdle

\* Run is called
RunCall ==
    /\ pc = "idle"
    /\ Become(RunStart(Machine, q, store))
    /\ UNCHANGED <<store, q, prev, cmdVars, concVars>>

\* the priming loop handles one cursor
Prime ==
    /\ pc = "prime"
    /\ Become(PrimeStep(Machine, q, store))
    /\ UNCHANGED <<store, q, prev, cmdVars, concVars>>

\* the stride loop tests its condition; Run returns when it fails
Loop ==
    /\ pc = "loop"
    /\ Become(LoopStep(Machine, q))
    /\ UNCHANGED <<store, q, prev, cmdVars, concVars>>

\* a stride pass takes one turn
Stride ==
    /\ pc = "stride"
    /\ Become(StrideStep(Machine, q, store))
    /\ UNCHANGED <<store, q, prev, cmdVars, concVars>>

\* the caller keeps the result and calls Run a second time on the same
\* IndexQuery value (a third call would start from the state of the second)
Again ==
    /\ pc = "done"
    /\ ~prev.returned
    /\ prev' = ret
    /\ pc' = "idle"
    /\ ret' = NoReturn
    /\ UNCHANGED <<store, q, ctx, i, index, foundIDs, cmdVars, concVars>>

Next == RunCall \/ Prime \/ Loop \/ Stride \/ Again

Spec == Init /\ [][Next]_vars

(***************************************************************************)
(* What the snapshot says about an item: the entries of a queried mod's    *)
(* bucket that meet the mod's scaled minimum.                              *)
(***************************************************************************)
Entries(s, mod) == IF s[mod].status = "present" THEN s[mod].entries ELSE <<>>

Meets(e, min) == HasPrimary(e) /\ e.key.values[1] >= min

\* the item has an entry in the bucket of slot j that meets the minimum
SatisfiesMod(id, query, s, j) ==
    \E x \in 1..Len(Entries(s, query.mods[j])) :
        /\ Meets(Entries(s, query.mods[j])[x], query.minModValues[j])
        /\ id \in Range(Entries(s, query.mods[j])[x].ids)

SatisfiesAll(id, query, s) ==
    \A j \in 1..Len(query.mods) : SatisfiesMod(id, query, s, j)

Satisfiers(query, s) == {id \in ItemIDs : SatisfiesAll(id, query, s)}

\* how often the ID is packed in entries that meet the minimum, over all slots
Occurrences(id, query, s) ==
    Cardinality({t \in (1..Len(query.mods)) \X (1..MaxPlainEntries + 1) \X (1..2) :
        /\ t[2] <= Len(Entries(s, query.mods[t[1]]))
        /\ Meets(Entries(s, query.mods[t[1]])[t[2]], query.minModValues[t[1]])
        /\ t[3] <= Len(Entries(s, query.mods[t[1]])[t[2]].ids)
        /\ Entries(s, query.mods[t[1]])[t[2]].ids[t[3]] = id})

NoDuplicates(l) == \A x, y \in 1..Len(l) : x # y => l[x] # l[y]

Returned == pc = "done" /\ ret.returned

(***************************************************************************)
(* C1.  Every ItemID in the list Run returns has, for every queried mod,   *)
(* an entry in the mod's bucket whose primary value is at least the scaled *)
(* minimum of the mod.                                                     *)
(***************************************************************************)
C1_ResultSatisfiesEveryMod ==
    (Returned /\ ret.err = "") => \A id \in Range(ret.result) : SatisfiesAll(id, q, store)

(***************************************************************************)
(* C2.  In every state of a Run and in the list Run returns, the result    *)
(* holds at most maxDesired ItemIDs.                                       *)
(***************************************************************************)
C2_ResultAtMostMaxDesired ==
    /\ Len(ctx.result) <= q.maxDesired
    /\ Len(ret.result) <= q.maxDesired

(***************************************************************************)
(* C3.  The result list never holds the same ItemID twice.                 *)
(***************************************************************************)
C3_ResultHasNoDuplicates ==
    NoDuplicates(ctx.result) /\ NoDuplicates(ret.result)

LoopExits == pc = "loop" /\ LoopStep(Machine, q).pc = "done"

C5_ShortResultIsExhaustive ==
    /\ (LoopExits /\ Len(ctx.result) < q.maxDesired) =>
          /\ \A j \in 1..Len(q.mods) : ctx.cursors[j].nil
          /\ Satisfiers(q, store) \subseteq Range(ctx.result)
    /\ (Returned /\ ret.err = ""
            /\ Cardinality(Satisfiers(q, store)) >= q.maxDesired)
          => Len(ret.result) >= q.maxDesired

C5_Witness ==
    /\ LoopExits
    /\ Len(q.mods) = 2
    /\ Len(ctx.result) < q.maxDesired
    /\ ctx.result # <<>>
    /\ Satisfiers(q, store) # ItemIDs

(***************************************************************************)
(* C6.  Run terminates: every step of Run strictly lowers a measure that   *)
(* is a natural number, so Run takes finitely many steps, each pass reads  *)
(* finitely many entries and the stride loop runs finitely many times.     *)
(* The measure counts, for every valid cursor, the reads it has left, and  *)
(* the turns left in the pass.                                             *)
(***************************************************************************)
RECURSIVE SumOver(_, _)
SumOver(f, n) == IF n = 0 THEN 0 ELSE f[n] + SumOver(f, n - 1)

\* reads the valid cursors have left: a cursor at position p is read at most
\* p more times and then once more to find the start of the bucket
ReadsLeft ==
    SumOver([j \in 1..Len(ctx.cursors) |->
                IF ctx.cursors[j].nil THEN 0 ELSE ctx.cursors[j].pos + 1],
            Len(ctx.cursors))

\* an upper bound of ReadsLeft over the whole Run
ReadsAtMost ==
    SumOver([j \in 1..Len(q.mods) |-> Len(Entries(store, q.mods[j])) + 1],
            Len(q.mods))

Measure ==
    LET n == Len(q.mods)
    IN  CASE pc = "prime" -> (n + 2) * ReadsAtMost + 2 * (n + 1) + (n - i + 1)
          [] pc = "loop" -> (n + 2) * ReadsLeft + (n + 1)
          [] pc = "stride" ->
                (n + 2) * ReadsLeft + (n - i + 1)
                    + (IF \E j \in i..n : ~ctx.cursors[j].nil THEN 0 ELSE n + 1)
          [] OTHER -> 0

C6_RunTerminates ==
    [][(pc \in {"prime", "loop", "stride"}) => (Measure' < Measure /\ Measure' >= 0)]_vars

C6_Witness ==
    /\ Returned
    /\ ret.err = ""
    /\ q.maxDesired > 0
    /\ Len(q.mods) = 2
    /\ \E m \in Range(q.mods) :
          \E x \in 1..Len(Entries(store, m)) : Entries(store, m)[x].nested

(***************************************************************************)
(* C7.  With maxDesired raised from K to K' >= K, the set of IDs returned  *)
(* with K is a subset of the set returned with K'.  (The second call of    *)
(* Run has the query and the store of the first, so the first is compared; *)
(* an empty result is a subset of every result.)                           *)
(***************************************************************************)
FirstReturned == Returned /\ ~prev.returned

WithMaxDesired(k) == RunOf([q EXCEPT !.maxDesired = k], store).ret.result

C7_MaxDesiredMonotone ==
    (FirstReturned /\ ret.result # <<>>) =>
        \A k \in (q.maxDesired + 1)..MaxDesiredBound :
            Range(ret.result) \subseteq Range(WithMaxDesired(k))

C7_Witness ==
    /\ FirstReturned
    /\ ret.result # <<>>
    /\ \E k \in (q.maxDesired + 1)..MaxDesiredBound :
          Range(ret.result) # Range(WithMaxDesired(k))

(***************************************************************************)
(* C8.  With the minimum values lowered component-wise from min to min',   *)
(* the set of IDs returned with min is a subset of the set returned with   *)
(* min'.                                                                   *)
(***************************************************************************)
\* the minimum values NewIndexQuery was called with
CallerMins ==
    CHOOSE mins \in [1..Len(q.mods) -> UserValues] :
        NewIndexQuery(q.mods, mins, q.maxDesired) = q

LowerMins ==
    {mins \in [1..Len(q.mods) -> UserValues] :
        /\ \A j \in 1..Len(q.mods) : mins[j] <= CallerMins[j]
        /\ mins # CallerMins}

WithMins(mins) == RunOf(NewIndexQuery(q.mods, mins, q.maxDesired), store).ret

C9_SecondRunReturnsTheSameSet ==
    (Returned /\ prev.returned) => Range(ret.result) = Range(prev.result)

C9_Witness ==
    /\ Returned
    /\ prev.returned
    /\ Len(ret.result) > q.maxDesired
    /\ q.maxDesired > 0

(***************************************************************************)
(* C10.  If a queried mod has no bucket, or a bucket without entries, Run  *)
(* returns an empty result and no error (stated for snapshots in which     *)
(* every key decodes to a value).                                          *)
(***************************************************************************)
SomeModWithoutEntries ==
    \E j \in 1..Len(q.mods) : Entries(store, q.mods[j]) = <<>>

EveryKeyDecodes ==
    \A m \in ModIDs : \A x \in 1..Len(Entries(store, m)) :
        Entries(store, m)[x].nested \/ HasPrimary(Entries(store, m)[x])

C10_MissingBucketGivesEmptyResult ==
    (Returned /\ SomeModWithoutEntries /\ EveryKeyDecodes)
        => (ret.result = <<>> /\ ret.err = "")

(***************************************************************************)
(* C11.  If the bucket of a queried mod fails to open in initContext, Run  *)
(* completes by returning an error and no ItemIDs; it does not crash.      *)
(***************************************************************************)
SomeBucketFails ==
    \E j \in 1..Len(q.mods) : getItemModIndexBucketRO(store, q.mods[j]).err

C11_OpenFailureReturnsError ==
    (SomeBucketFails /\ pc # "idle") =>
        (Returned /\ ret.err # "" /\ ret.result = <<>>)

(***************************************************************************)
(* C12.  A key that fails to decode, or decodes to no values, makes Run    *)
(* return an error instead of a result list, also when IDs had already     *)
(* been promoted to the result.                                            *)
(***************************************************************************)
C12_DecodeFailureReturnsNoList ==
    (Returned /\ ret.err # "") => ret.result = <<>>

(***************************************************************************)
(* C13.  On every exit path of Run the context is discarded: once Run has  *)
(* finished, and until it is called again, the IndexQuery holds no         *)
(* context.                                                                *)
(***************************************************************************)
C13_ContextDiscardedOnExit ==
    (pc \in {"done", "panicked", "idle"}) => ctx = NilCtx

\* Run has returned a decode error met in a stride, after an ID was promoted
C13_Witness ==
    /\ Returned
    /\ ret.err # ""
    /\ ret.result # <<>>

(***************************************************************************)
(* C15.  With a single mod Run returns IDs in non-increasing order of      *)
(* primary value, and every qualifying item it does not return has a       *)
(* primary value at most that of every returned one: the list Run returns  *)
(* is a prefix of the qualifying IDs of the bucket read from its tail.     *)
(***************************************************************************)
\* the IDs packed in the entries of b[1..p] that meet min, from the tail down
RECURSIVE DescendingIDs(_, _, _)
DescendingIDs(b, p, min) ==
    IF p < 1 THEN <<>>
    ELSE (IF Meets(b[p], min) THEN b[p].ids ELSE <<>>)
             \o DescendingIDs(b, p - 1, min)

\* the primary value each of those IDs is stored under
RECURSIVE DescendingValues(_, _, _)
DescendingValues(b, p, min) ==
    IF p < 1 THEN <<>>
    ELSE (IF Meets(b[p], min)
          THEN [x \in 1..Len(b[p].ids) |-> b[p].key.values[1]]
          ELSE <<>>)
             \o DescendingValues(b, p - 1, min)

IsPrefix(x, y) == Len(x) <= Len(y) /\ SubSeq(y, 1, Len(x)) = x

C15_SingleModIsTopByValue ==
    (Returned /\ ret.err = "" /\ Len(q.mods) = 1) =>
        LET b == Entries(store, q.mods[1])
            ids == DescendingIDs(b, Len(b), q.minModValues[1])
            vals == DescendingValues(b, Len(b), q.minModValues[1])
        IN  /\ IsPrefix(ret.result, ids)
            /\ \A x, y \in 1..Len(vals) :
                  (x <= Len(ret.result) /\ x < y) => vals[x] >= vals[y]

C15_Witness ==
    /\ Returned
    /\ ret.err = ""
    /\ Len(q.mods) = 1
    /\ Len(ret.result) = 2
    /\ LET b == Entries(store, q.mods[1])
           vals == DescendingValues(b, Len(b), q.minModValues[1])
       IN  Len(vals) > 2 /\ vals[2] > vals[3]

(***************************************************************************)
(* C19.  While Run holds a context, validCursors is the number of non-nil  *)
(* cursor slots and is never negative (so no slot is invalidated twice).   *)
(***************************************************************************)
ValidSlots == Cardinality({j \in 1..Len(ctx.cursors) : ~ctx.cursors[j].nil})

C19_ValidCursorsCountsSlots ==
    ~ctx.nil => (ctx.validCursors = ValidSlots /\ ctx.validCursors >= 0)

C19_Witness ==
    /\ pc = "loop"
    /\ Len(q.mods) = 2
    /\ ctx.validCursors = 0
    /\ ctx.result # <<>>

(***************************************************************************)
(* C20.  After every registerID call each ItemID in the accumulator map    *)
(* has a count c with 1 <= c < len(mods) (for a single mod the map stays   *)
(* empty); an ID whose count reaches len(mods) leaves the map in the step  *)
(* that appends it to the result.                                          *)
(***************************************************************************)
CountsBelow(c, query) ==
    \A id \in DOMAIN c.set : 1 <= c.set[id] /\ c.set[id] < Len(query.mods)

CountOf(c, id) == IF id \in DOMAIN c.set THEN c.set[id] ELSE 0

\* registerID called with id in context c keeps the counts below len(mods)
\* and appends id to the result exactly when it takes id out of the map
RegistersWell(c, query, id) ==
    LET c2 == registerID(c, query, id)
    IN  /\ CountsBelow(c2, query)
        /\ IF CountOf(c, id) + 1 >= Len(query.mods)
           THEN c2.result = Append(c.result, id) /\ CountOf(c2, id) = 0
           ELSE c2.result = c.result /\ CountOf(c2, id) = CountOf(c, id) + 1

\* checkPair calls registerID in the priming loop and in a stride pass
C20_AccumulatorCountsBelowMods ==
    ~ctx.nil =>
        /\ CountsBelow(ctx, q)
        /\ (pc \in {"prime", "stride"})
              => \A id \in ItemIDs : RegistersWell(ctx, q, id)

C20_Witness ==
    /\ ~ctx.nil
    /\ Len(q.mods) = 2
    /\ ctx.result # <<>>
    /\ DOMAIN ctx.set # {}

(***************************************************************************)
(* Queries over the whole range of 16-bit minimum values: the minimum of   *)
(* a mod is a small value, the largest value whose product with the scale  *)
(* factor fits 16 bits, or the value after it.                             *)
(***************************************************************************)
MaxUint16 == Uint16Mod - 1

WideValues ==
    {1, MaxUint16 \div ItemModAverageScaleFactor,
        MaxUint16 \div ItemModAverageScaleFactor + 1}

WideInit ==
    /\ store \in StoresOf(PlainEntries, MaxWideEntries)
    /\ \E mods \in ModLists :
        /\ \A m \in ModIDs \ Range(mods) : store[m].status = "absent"
        /\ \E mins \in [1..Len(mods) -> WideValues], k \in 0..MaxDesiredBound :
              q = NewIndexQuery(mods, mins, k)
    /\ ctx = NilCtx
    /\ pc = "idle"
    /\ i = 1
    /\ index = 0
    /\ foundIDs = 0
    /\ ret = NoReturn
    /\ prev = NoReturn
    /\ CmdIdle
    /\ ConcIdle

WideSpec == WideInit /\ [][Next]_vars

(***************************************************************************)
(* C14.  The threshold compared against primary values is the product of   *)
(* the caller's minimum and the scale factor, without wrap-around; a       *)
(* minimum whose scaled value exceeds every stored primary value of a mod  *)
(* makes Run return an empty result and no error.                          *)
(***************************************************************************)
\* the minimum values NewIndexQuery was called with
WideCallerMins ==
    CHOOSE mins \in [1..Len(q.mods) -> WideValues] :
        NewIndexQuery(q.mods, mins, q.maxDesired) = q

\* the scaled minimum of slot j exceeds every primary value stored for its mod
MinAboveStored(j) ==
    \A x \in 1..Len(Entries(store, q.mods[j])) :
        HasPrimary(Entries(store, q.mods[j])[x]) =>
            Entries(store, q.mods[j])[x].key.values[1]
                < WideCallerMins[j] * ItemModAverageScaleFactor

C14_ThresholdIsTheProduct ==
    Returned =>
        /\ \A j \in 1..Len(q.mods) :
              q.minModValues[j] = WideCallerMins[j] * ItemModAverageScaleFactor
        /\ (\E j \in 1..Len(q.mods) : MinAboveStored(j))
              => (ret.result = <<>> /\ ret.err = "")

(***************************************************************************)
(* The specification of the mod-search surface: a predicate is fetched     *)
(* from a file, cloned, the original and the clone are written, and        *)
(* Satisfies is asked about a list of items.                               *)
(***************************************************************************)
\* no IndexQuery runs
IndexIdle ==
    /\ store = [m \in ModIDs |-> [status |-> "absent", entries |-> <<>>]]
    /\ q = NewIndexQuery(<<1>>, <<1>>, 0)
    /\ ctx = NilCtx
    /\ pc = "idle"
    /\ i = 1
    /\ index = 0
    /\ foundIDs = 0
    /\ ret = NoReturn
    /\ prev = NoReturn

CmdInit ==
    /\ IndexIdle
    /\ ConcIdle
    /\ file \in Files
    /\ items \in SeqsUpTo(ItemChoices, MaxItems)
    /\ heap = <<>>
    /\ search = NilSearch
    /\ clone = NilSearch
    /\ cpc = "start"
    /\ writes = 0
    /\ fetchErr = ""
    /\ answer = NoAnswer

\* FetchMultiModSearch is called with the path of the file
Fetch ==
    /\ cpc = "start"
    /\ LET r == FetchMultiModSearch(file, heap)
       IN  /\ fetchErr' = r.err
           /\ search' = r.search
           /\ heap' = r.heap
           /\ cpc' = IF r.err = "" THEN "fetched" ELSE "failed"
    /\ UNCHANGED <<indexVars, concVars, file, items, clone, writes, answer>>

\* search.Clone() is called
CloneCall ==
    /\ cpc = "fetched"
    /\ LET r == Clone(search, heap)
       IN  /\ clone' = r.search
           /\ heap' = r.heap
    /\ cpc' = "cloned"
    /\ UNCHANGED <<indexVars, concVars, file, items, search, writes, fetchErr, answer>>

\* the writes a holder of s can make: an element of Mods or of MinValues,
\* or a scalar field
WritesTo(s, h) ==
    {[field |-> "Mods", slot |-> j] : j \in 1..Len(h[s.Mods])}
      \cup {[field |-> "MinValues", slot |-> j] : j \in 1..Len(h[s.MinValues])}
      \cup {[field |-> "MaxDesired", slot |-> 0], [field |-> "League", slot |-> 0]}

\* s and the heap after the write w through s
Written(s, h, w) ==
    CASE w.field = "Mods" ->
            [search |-> s, heap |-> [h EXCEPT ![s.Mods][w.slot] = OtherName]]
      [] w.field = "MinValues" ->
            [search |-> s, heap |-> [h EXCEPT ![s.MinValues][w.slot] = @ + 1]]
      [] w.field = "MaxDesired" ->
            [search |-> [s EXCEPT !.MaxDesired = @ + 1], heap |-> h]
      [] OTHER ->
            [search |-> [s EXCEPT !.League = "Standard"], heap |-> h]

\* the holder of the clone writes one of its fields
WriteClone ==
    /\ cpc = "cloned"
    /\ writes < MaxWrites
    /\ \E w \in WritesTo(clone, heap) :
          /\ clone' = Written(clone, heap, w).search
          /\ heap' = Written(clone, heap, w).heap
    /\ writes' = writes + 1
    /\ UNCHANGED <<indexVars, concVars, file, items, search, cpc, fetchErr, answer>>

\* the holder of the original writes one of its fields
WriteSearch ==
    /\ cpc = "cloned"
    /\ writes < MaxWrites
    /\ \E w \in WritesTo(search, heap) :
          /\ search' = Written(search, heap, w).search
          /\ heap' = Written(search, heap, w).heap
    /\ writes' = writes + 1
    /\ UNCHANGED <<indexVars, concVars, file, items, clone, cpc, fetchErr, answer>>

\* Satisfies(items) is called on the original and, if there is one, the clone
SatisfiesCall ==
    /\ cpc \in {"fetched", "cloned"}
    /\ answer' = [search |-> Satisfies(View(search, heap), items),
                  clone |-> IF clone.nil THEN "none"
                            ELSE Satisfies(View(clone, heap), items)]
    /\ cpc' = "checked"
    /\ UNCHANGED <<indexVars, concVars, file, items, heap, search, clone, writes, fetchErr>>

CmdNext == Fetch \/ CloneCall \/ WriteClone \/ WriteSearch \/ SatisfiesCall

CmdSpec == CmdInit /\ [][CmdNext]_vars

(***************************************************************************)
(* C16.  For a predicate with len(Mods) = len(MinValues), Satisfies is     *)
(* true if and only if every item has, for each mod of the predicate, a    *)
(* mod instance of that template whose first value is at least the mod's   *)
(* minimum; other mods of an item, repeated instances and mods repeated in *)
(* the predicate make no difference.                                       *)
(***************************************************************************)
\* the item has, for every mod of p, an instance that meets the minimum
MeetsEveryMod(p, item) ==
    \A j \in 1..Len(p.Mods) :
        \E x \in 1..Len(item) :
            /\ item[x].Template = p.Mods[j]
            /\ item[x].Values[1] >= p.MinValues[j]

C16_SatisfiesIsTheConjunction ==
    (cpc = "checked"
        /\ Len(View(search, heap).Mods) = Len(View(search, heap).MinValues))
      => (answer.search = "true"
            <=> \A x \in 1..Len(items) : MeetsEveryMod(View(search, heap), items[x]))

(***************************************************************************)
(* C17.  Clone shares no mutable state with the original: a write to a     *)
(* field of the clone leaves every field of the original as it was, and    *)
(* a write to the original leaves the clone as it was; Satisfies gives the *)
(* same answer for a predicate and its clone.                              *)
(***************************************************************************)
C17_CloneSharesNothing ==
    /\ [](cpc = "cloned" => View(clone, heap) = View(search, heap) \/ writes > 0)
    /\ []((cpc = "checked" /\ ~clone.nil /\ writes = 0)
              => answer.clone = answer.search)
    /\ [][/\ WriteClone => View(search, heap)' = View(search, heap)
          /\ WriteSearch => View(clone, heap)' = View(clone, heap)]_vars

C17_Witness ==
    /\ cpc = "cloned"
    /\ writes > 0
    /\ View(clone, heap).Mods # View(search, heap).Mods
    /\ Len(View(search, heap).Mods) = 2

(***************************************************************************)
(* C18.  Deserialising a predicate whose Mods and MinValues differ in      *)
(* length fails: FetchMultiModSearch returns an error for such a file and  *)
(* never a predicate with len(Mods) # len(MinValues).                      *)
(***************************************************************************)
C18_FetchRejectsMismatchedLengths ==
    (cpc = "fetched") =>
        Len(View(search, heap).Mods) = Len(View(search, heap).MinValues)

(***************************************************************************)
(* C21.  Cursor invalidation is one-way: inside one Run an invalidated     *)
(* slot stays invalidated and its cursor is not moved again.  A slot is    *)
(* invalidated only at its own turn, by reaching the start of its bucket   *)
(* or by reading a key whose primary value is below the scaled minimum,    *)
(* and the pair that is below the minimum registers no IDs.                *)
(***************************************************************************)
\* the bucket the cursor of slot j runs over
BucketAt(j) == getItemModIndexBucketRO(store, q.mods[j]).entries

\* the pair the next step of Run reads from the cursor of slot i: priming
\* reads Last, a stride pass reads Prev
PairRead ==
    IF pc = "prime"
    THEN PairAt(BucketAt(i), Last(BucketAt(i), ctx.cursors[i]))
    ELSE PairAt(BucketAt(i), Prev(BucketAt(i), ctx.cursors[i]))

\* the pair has a key that decodes to a primary value
HasValue(kv) ==
    ~kv.knil /\ ~decodeModIndexKey(kv.key).err
        /\ Len(decodeModIndexKey(kv.key).values) > 0

BelowMinimum(kv, j) ==
    HasValue(kv) /\ decodeModIndexKey(kv.key).values[1] < q.minModValues[j]

\* a step inside one Run: the context is there before and after it
InRun == ~ctx.nil /\ ~ctx'.nil

C21_InvalidationIsOneWay ==
    [][InRun =>
        \A j \in 1..Len(q.mods) :
            /\ ctx.cursors[j].nil => ctx'.cursors[j] = ctx.cursors[j]
            /\ (~ctx.cursors[j].nil /\ ctx'.cursors[j].nil) =>
                  /\ j = i
                  /\ pc \in {"prime", "stride"}
                  /\ \/ pc = "stride" /\ PairRead.knil /\ PairRead.vnil
                     \/ /\ BelowMinimum(PairRead, j)
                        /\ ctx'.set = ctx.set
                        /\ ctx'.result = ctx.result]_vars

\* slot 1 was invalidated by a key below its minimum, slot 2 is still read
C21_Witness ==
    /\ pc = "stride"
    /\ Len(q.mods) = 2
    /\ ctx.cursors[1].nil
    /\ ~ctx.cursors[2].nil
    /\ ctx.cursors[2].pos < Len(BucketAt(2))
    /\ Len(BucketAt(1)) > 0
    /\ HasPrimary(BucketAt(1)[1])
    /\ BucketAt(1)[1].key.values[1] < q.minModValues[1]

(***************************************************************************)
(* C22.  In a stride pass a valid cursor keeps reading until 32 ItemIDs    *)
(* have been registered from it in the pass or it is invalidated: the      *)
(* value checkPair returns is the number of IDs it handled, zero only when *)
(* the cursor was invalidated, and after a pair that meets the minimum the *)
(* pass stays on the cursor while the budget lasts.                        *)
(***************************************************************************)
MeetsMinimum(kv, j) ==
    HasValue(kv) /\ decodeModIndexKey(kv.key).values[1] >= q.minModValues[j]

C22_StrideReadsUntilBudget ==
    (pc = "stride" /\ ~ctx.cursors[i].nil
        /\ index < LookupItemsMultiModStrideLength /\ MeetsMinimum(PairRead, i))
      => LET r == checkPair(ctx, q, PairRead.key, PairRead.ids, i)
             st == StrideStep(Machine, q, store)
         IN  /\ r.idCount = Len(PairRead.ids)
             /\ r.idCount = 0 => r.ctx.cursors[i].nil
             /\ (index + Len(PairRead.ids) < LookupItemsMultiModStrideLength)
                   => (st.pc = "stride" /\ st.i = i
                          /\ st.index = index + Len(PairRead.ids))

TailBelowMinimum(j) ==
    BelowMinimum(PairAt(BucketAt(j), Len(BucketAt(j))), j)

C24_PrimingComesFirst ==
    [][/\ pc' = "stride" => pc \in {"loop", "stride"}
       /\ (pc = "prime" /\ pc' = "loop") => i = Len(q.mods)
       /\ (pc = "prime" /\ pc' = "prime") => i' = i + 1
       /\ (pc = "prime" /\ ~ctx'.nil) =>
             IF TailBelowMinimum(i)
             THEN /\ ctx'.cursors[i].nil
                  /\ ctx'.set = ctx.set
                  /\ ctx'.result = ctx.result
             ELSE /\ ~ctx'.cursors[i].nil
                  /\ ctx'.cursors[i].pos = Len(BucketAt(i))
       /\ (pc = "prime" /\ pc' = "loop" /\ ctx'.validCursors = 0)
             => ctx'.result = <<>>
       /\ (pc = "loop" /\ ctx.validCursors = 0)
             => (pc' = "done" /\ ret'.err = "" /\ ret'.result = ctx.result)]_vars

\* Run has returned after priming invalidated both of two cursors
C24_Witness ==
    /\ Returned
    /\ ret.err = ""
    /\ ret.result = <<>>
    /\ q.maxDesired > 0
    /\ q.mods = <<1, 2>>
    /\ \A j \in 1..2 : Len(BucketAt(j)) > 0 /\ TailBelowMinimum(j)

(***************************************************************************)
(* The specification of two concurrent calls of Run: goroutine 1 calls Run *)
(* on the IndexQuery value 1, goroutine 2 on the same value or on value 2, *)
(* which NewIndexQuery built from the same arguments.                      *)
(***************************************************************************)
ConcInit ==
    /\ store \in StoresOf(PlainEntries, MaxConcEntries)
    /\ \E mods \in ModLists :
        /\ \A m \in ModIDs \ Range(mods) : store[m].status = "absent"
        /\ \E mins \in [1..Len(mods) -> UserValues], k \in 0..MaxDesiredBound :
              q = NewIndexQuery(mods, mins, k)
    /\ ctx = NilCtx
    /\ pc = "idle"
    /\ i = 1
    /\ index = 0
    /\ foundIDs = 0
    /\ ret = NoReturn
    /\ prev = NoReturn
    /\ CmdIdle
    /\ objs = [t \in Threads |-> NilCtx]
    /\ qctx = [v \in Threads |-> 0]
    /\ \E v \in Threads : thr = [t \in Threads |-> FreshThread(IF t = 1 THEN 1 ELSE v)]

ConcFrame == UNCHANGED <<store, q, ctx, pc, i, index, foundIDs, ret, prev, cmdVars>>

\* goroutine t calls Run
ConcRunCall(t) ==
    /\ thr[t].pc = "idle"
    /\ ConcBecome(ConcRunStart(World, t, q, store))
    /\ ConcFrame

\* the priming loop of goroutine t handles one cursor
ConcPrime(t) ==
    /\ thr[t].pc = "prime"
    /\ ConcBecome(ConcPrimeStep(World, t, q, store))
    /\ ConcFrame

\* the stride loop of goroutine t tests its condition
ConcLoop(t) ==
    /\ thr[t].pc = "loop"
    /\ ConcBecome(ConcLoopStep(World, t, q))
    /\ ConcFrame

\* a stride pass of goroutine t takes one turn
ConcStride(t) ==
    /\ thr[t].pc = "stride"
    /\ ConcBecome(ConcStrideStep(World, t, q, store))
    /\ ConcFrame

ConcNext ==
    \E t \in Threads :
        ConcRunCall(t) \/ ConcPrime(t) \/ ConcLoop(t) \/ ConcStride(t)

ConcSpec == ConcInit /\ [][ConcNext]_vars

(***************************************************************************)
(* C25.  Under every interleaving of two concurrent calls of Run, also two *)
(* calls on the same IndexQuery value, a Run works on its own context only *)
(* and returns what it returns when it runs alone.                         *)
(***************************************************************************)
C25_ConcurrentRunsAreIsolated ==
    \A t \in Threads :
        /\ thr[t].rng \in {0, t}
        /\ thr[t].pc = "panicked" => RunOf(q, store).pc = "panicked"
        /\ thr[t].pc = "done" =>
              /\ RunOf(q, store).pc = "done"
              /\ thr[t].ret.result = RunOf(q, store).ret.result
              /\ thr[t].ret.err = RunOf(q, store).ret.err

====
